---- MODULE Spec2Model ----
(***************************************************************************)
(* Room resolution and room validation of the chat pipeline:               *)
(*   resolve_room  (packages/core/src/middlewares/resolve_room.ts)          *)
(*   check_room    (packages/core/src/middlewares/check_room.ts)            *)
(* Each handler is an async function; it is cut at its awaits, so that one  *)
(* action is the code that runs between two suspension points.  The label   *)
(* of a suspension point is the source line of the awaited call.            *)
(***************************************************************************)
EXTENDS Integers, Sequences, FiniteSets, TLC

\* ------------------------------------------------------------------ bounds
\* Number of messages each user sends (pipeline runs per user).
MaxRuns == 2

\* Length of the lists of message elements read_chat_message is given.
MaxElements == 2

\* Number of events a completion stream delivers.
MaxChunks == 8

\* Number of stages registered, and of before/after declarations they make,
\* where the registry is arbitrary.
MaxStages == 3
MaxConstraints == 3

\* ------------------------------------------------------------- vocabulary
Users == {"u1", "u2"}
Sessions == {"s1", "s2"}

\* An optional value: <<>> is null/undefined, <<x>> is x.
None == <<>>
Some(x) == <<x>>
Get(o) == o[1]

\* Text is a sequence of atoms; " " is the space character.
botName == <<"b">>
defaultPreset == "preset_live"
defaultModel == "model_live"
defaultChatMode == "chat_live"

\* The two notices of check_room (the texts are abbreviated).
JoinRoomFirst == <<"join-a-room-first">>
NotJoined(roomName) == <<"you-have-not-joined-room", " ">> \o roomName

\* ------------------------------------------------------------------ state
VARIABLES
    config,         \* Config: the flags the two handlers read
    session,        \* session -> the message as it enters resolve_room
    rooms,          \* the chathub_room table: a set of ConversationRoom records
    template,       \* the designated template room (optional)
    joined,         \* user -> ids of the rooms the user has joined
    active,         \* user -> optional id of the user's active room
    uuids,          \* number of conversation ids issued so far
    cleared,        \* roomId -> number of clearChatHistory, clearCache and
                    \*           upsert calls made for the room
    pendingSwitch,  \* session -> optional key of a switch started without await
    runsLeft,       \* session -> messages still to send
    run,            \* session -> the running pipeline: context and locals
    registry,       \* the registered stages, in registration order
    sealed,         \* the state of the registry: open, sorting, sealed or failed
    order,          \* the execution order, as far as finalize has computed it
    handlers,       \* stage name -> what the stage's handler returns
    chain,          \* the executor's runs over the finalized order
    reader,         \* a call of read_chat_message: its inputs and its result
    requester       \* a call of completionStream: the generator's locals

pipelineVars == <<config, session, rooms, template, joined, active, uuids,
                  cleared, pendingSwitch, runsLeft, run>>

chainVars == <<registry, sealed, order, handlers, chain>>

otherVars == <<reader, requester>>

vars == <<pipelineVars, chainVars, otherVars>>

\* Ids a room can get within the bounds: three rooms exist at the start and
\* every run creates at most one.
RoomIds == 0 .. (3 + 2 * MaxRuns + 1)

\* ---------------------------------------------------------------- strings
\* String.prototype.split(' ')
RECURSIVE SplitAcc(_, _, _)
SplitAcc(s, cur, out) ==
    IF s = <<>> THEN Append(out, cur)
    ELSE IF Head(s) = " " THEN SplitAcc(Tail(s), <<>>, Append(out, cur))
    ELSE SplitAcc(Tail(s), Append(cur, Head(s)), out)

Split(s) == SplitAcc(s, <<>>, <<>>)

\* String.prototype.startsWith
StartsWith(s, p) == Len(p) <= Len(s) /\ SubSeq(s, 1, Len(p)) = p

\* Array.prototype.find: the first element of s that satisfies the
\* predicate, if any; hits is the set of the rooms that satisfy it.
Find(s, hits) ==
    LET idx == { i \in 1 .. Len(s) : s[i] \in hits }
    IN  IF idx = {} THEN None
        ELSE Some(s[CHOOSE i \in idx : \A j \in idx : i <= j])

\* a ?? b
Coalesce(a, b) == IF a # None THEN a ELSE b

\* ------------------------------------------------------------- repository
\* (chains/rooms.ts is not part of the sources; these follow section 6 of
\* the specification.)
JoinedRooms(u) == { r \in rooms : r.roomId \in joined[u] }

\* Every order in which the repository can return the rooms of S.
Orders(S) ==
    { s \in [1 .. Cardinality(S) -> S] :
        \A i, j \in 1 .. Cardinality(S) : s[i] = s[j] => i = j }

\* getAllJoinedRooms(user) -> sequence<Room>
getAllJoinedConversationRoom(u) == Orders(JoinedRooms(u))

\* The joined room the user's active room pointer designates, if any.
ActiveRoom(u) == { r \in JoinedRooms(u) : active[u] = Some(r.roomId) }

\* queryJoinedRoom(user, optionalNameHint) -> Room | none
\* With a hint, the joined room of that name.  Without one the section gives
\* the signature only: the result is none or the user's active room.
queryJoinedConversationRoom(u, name) ==
    IF name = None
    THEN {None} \cup { Some(r) : r \in ActiveRoom(u) }
    ELSE LET m == { r \in JoinedRooms(u) : r.roomName = Get(name) }
         IN  IF m = {} THEN {None} ELSE { Some(r) : r \in m }

\* queryPublicRoom(user) -> Room | none
queryPublicConversationRoom ==
    LET m == { r \in rooms : r.visibility = "public" }
    IN  IF m = {} THEN {None} ELSE { Some(r) : r \in m }

\* getTemplateRoom(config) -> Room | none
getTemplateConversationRoom == template

\* getMaxRoomId() -> integer
getMaxConversationRoomId ==
    IF rooms = {} THEN 0
    ELSE CHOOSE n \in { r.roomId : r \in rooms } :
            \A r \in rooms : r.roomId <= n

\* createRoom(user, room): the record is stored and the user is a member.
createConversationRoom(u, room) ==
    /\ rooms' = rooms \cup {room}
    /\ joined' = [joined EXCEPT ![u] = @ \cup {room.roomId}]

\* switchActiveRoom(user, roomId)
switchConversationRoom(u, id) ==
    active' = [active EXCEPT ![u] = Some(id)]

\* upsertRoom(room): the table is keyed by roomId.
upsert(room) ==
    rooms' = { r \in rooms : r.roomId # room.roomId } \cup {room}

\* ------------------------------------------------------- initial records
Room(id, name, conv, master, vis, preset, model, chatMode, auto) ==
    [roomId |-> id, roomName |-> name, conversationId |-> conv,
     roomMasterId |-> master, visibility |-> vis, preset |-> preset,
     model |-> model, chatMode |-> chatMode, autoUpdate |-> auto]


\* A pipeline run that has not started: an empty context, no locals.
Idle ==
    [pc |-> "idle",
     \* ChainMiddlewareContext
     message |-> <<>>, room |-> None, inputMessage |-> None, sent |-> <<>>,
     \* what the executor sent through the session's reply capability
     reply |-> <<>>,
     \* locals of resolve_room
     joinRoom |-> None, needContinue |-> FALSE, splitContent |-> <<>>,
     token |-> None, matchedRoom |-> None, cloneRoom |-> None,
     needUpdate |-> FALSE,
     \* local of check_room
     picked |-> None,
     \* repository writes made by the run, in call order
     calls |-> <<>>,
     \* what the two handlers returned
     resolve_room |-> "none", check_room |-> "none",
     request_model |-> "none"]

\* ----------------------------------------------------------- the executor
\* (chains/chain.ts is not part of the sources; section 4.2 of the
\* specification.)  STOP and a fault end the run, CONTINUE and SKIPPED go on
\* to the next stage: check_room after resolve_room, request_model after
\* check_room.  On STOP the context's current message, if any, is sent
\* through the session's reply capability.
Reply(message) == IF message = <<>> THEN <<>> ELSE <<message>>

ResolveReturn(r, signal) ==
    [r EXCEPT !.resolve_room = signal,
              !.pc = IF signal \in {"CONTINUE", "SKIPPED"} THEN "C17" ELSE "done",
              !.reply = IF signal = "STOP" THEN @ \o Reply(r.message) ELSE @]

\* CheckReturn with an executor that goes on after STOP.
CheckReturn_GoesOn(r, signal) ==
    [r EXCEPT !.check_room = signal, !.pc = "R",
              !.reply = IF signal = "STOP" THEN @ \o Reply(r.message) ELSE @]

CheckReturn(r, signal) ==
    [r EXCEPT !.check_room = signal,
              !.pc = IF signal \in {"CONTINUE", "SKIPPED"} THEN "R" ELSE "done",
              !.reply = IF signal = "STOP" THEN @ \o Reply(r.message) ELSE @]

\* ----------------------------------------------------------- resolve_room
\* context.command?.length ?? 0
CommandLength(s) ==
    IF session[s].command = None THEN 0 ELSE Len(Get(session[s].command))

\* NeedContinue with the isNickname switch left out.
NeedContinue_AnyBotName(s) ==
    IF /\ session[s].isDirect
       /\ config.allowPrivate
       /\ (session[s].command # None \/ config.privateChatWithoutCommand)
    THEN TRUE
    ELSE IF session[s].appel /\ config.allowAtReply
    THEN TRUE
    ELSE IF StartsWith(session[s].content, botName)
    THEN TRUE
    ELSE session[s].command # None

\* resolve_room.ts 32-46: the continuation triggers.
NeedContinue(s) ==
    IF /\ session[s].isDirect
       /\ config.allowPrivate
       /\ (session[s].command # None \/ config.privateChatWithoutCommand)
    THEN TRUE
    ELSE IF session[s].appel /\ config.allowAtReply
    THEN TRUE
    ELSE IF StartsWith(session[s].content, botName) /\ config.isNickname
    THEN TRUE
    ELSE session[s].command # None

\* resolve_room.ts 84-109: the room picked among the joined rooms; random is
\* the value of Math.floor(Math.random() * joinedRooms.length) + 1.
PickJoinedRoom(joinedRooms, userId, random) ==
    LET all == { joinedRooms[i] : i \in 1 .. Len(joinedRooms) }
        PrivateOwn == { room \in all : room.visibility = "private"
                                        /\ room.roomMasterId = userId }
        CloneOwn == { room \in all : room.visibility = "template_clone"
                                      /\ room.roomMasterId = userId }
        Clone == { room \in all : room.visibility = "template_clone" }
        own == Coalesce(Find(joinedRooms, PrivateOwn),
                        Find(joinedRooms, CloneOwn))
    IN  IF config.autoCreateRoomFromUser # TRUE /\ own = None
        THEN Coalesce(Find(joinedRooms, Clone), Some(joinedRooms[random]))
        ELSE own

\* resolve_room.ts 146-154 / 171-173: the clone made before getMaxRoomId is
\* awaited.
CloneTemplate(templateRoom, userId, uuid) ==
    [templateRoom EXCEPT
        !.conversationId = uuid,
        !.roomMasterId = userId,
        !.visibility = IF config.autoCreateRoomFromUser
                       THEN "private" ELSE "template_clone"]

\* NextRoomId without the increment.
NextRoomId_Same(maxId) == maxId

\* resolve_room.ts 156-164 / 175-183: the id and the name of the clone.
NextRoomId(maxId) == maxId + 1

\* session.event.guild.name of a session whose event carries no guild is a
\* TypeError.
Throws161(s) == ~session[s].isDirect /\ session[s].guild = None

\* The owner the name of the clone starts with.
CloneOwner(s) ==
    IF session[s].isDirect
    THEN Get(Coalesce(session[s].username, Some(<<session[s].userId>>)))
    ELSE Get(Coalesce(Get(session[s].guild).name,
                      Coalesce(session[s].username,
                               Some(Get(session[s].guild).id))))

CloneName(s) ==
    CloneOwner(s)
    \o <<" ">>
    \o (IF config.autoCreateRoomFromUser
        THEN <<"room">> ELSE <<"template-clone-room">>)

\* NeedUpdate that asks for persistence on every adoption.
NeedUpdate_Always(room) == TRUE

\* resolve_room.ts 203-206 and 208
NeedUpdate(room) ==
    room.preset # defaultPreset \/ room.chatMode # defaultChatMode

NeedClearCache(room) ==
    ~NeedUpdate(room) /\ room.model # defaultModel

\* resolve_room.ts 226-228
Return226(r) == ResolveReturn([r EXCEPT !.room = r.joinRoom], "CONTINUE")

\* resolve_room.ts 65
Return65(r) == ResolveReturn(r, "STOP")

\* resolve_room.ts 143
Return143(r) == ResolveReturn(r, "SKIPPED")

\* resolve_room.ts 111: joinRoom.roomId of a null joinRoom is a TypeError.
Throw111(r) == ResolveReturn(r, "FAULT")

\* resolve_room.ts 161 / 180: the TypeError ends the run.
Throw161(r) == ResolveReturn(r, "FAULT")

\* resolve_room.ts 212-223: overwrite in memory, then persist if needed.
From212(r) ==
    LET live == [Get(r.joinRoom) EXCEPT !.model = defaultModel,
                                        !.preset = defaultPreset,
                                        !.chatMode = defaultChatMode]
        r2 == [r EXCEPT !.joinRoom = Some(live)]
    IN  IF r2.needUpdate THEN [r2 EXCEPT !.pc = "L217"] ELSE Return226(r2)

\* From195 that resyncs every autoUpdate room, whatever its visibility.
From195_AnyVisibility(r) ==
    IF /\ r.joinRoom # None
       /\ Get(r.joinRoom).autoUpdate = TRUE
    THEN IF NeedUpdate(Get(r.joinRoom))
         THEN From212([r EXCEPT !.needUpdate = TRUE])
         ELSE IF NeedClearCache(Get(r.joinRoom))
         THEN [r EXCEPT !.needUpdate = FALSE, !.pc = "L209"]
         ELSE From212([r EXCEPT !.needUpdate = FALSE])
    ELSE Return226(r)

\* resolve_room.ts 195-210
From195(r) ==
    IF /\ r.joinRoom # None
       /\ Get(r.joinRoom).visibility = "template_clone"
       /\ Get(r.joinRoom).autoUpdate = TRUE
    THEN IF NeedUpdate(Get(r.joinRoom))
         THEN From212([r EXCEPT !.needUpdate = TRUE])
         ELSE IF NeedClearCache(Get(r.joinRoom))
         THEN [r EXCEPT !.needUpdate = FALSE, !.pc = "L209"]
         ELSE From212([r EXCEPT !.needUpdate = FALSE])
    ELSE Return226(r)

\* resolve_room.ts 133
From133(s, r) ==
    IF r.joinRoom = None /\ CommandLength(s) < 1
    THEN [r EXCEPT !.pc = "L136"]
    ELSE From195(r)

\* resolve_room.ts 119-124
From119(s, r) ==
    IF /\ r.joinRoom = None
       /\ config.autoCreateRoomFromUser # TRUE
       /\ ~session[s].isDirect
       /\ CommandLength(s) < 1
    THEN [r EXCEPT !.pc = "L125"]
    ELSE From133(s, r)

\* resolve_room.ts 76
From76(s, r) ==
    IF r.joinRoom = None THEN [r EXCEPT !.pc = "L78"] ELSE From119(s, r)

\* resolve_room.ts 62-70
From62(r) ==
    IF r.matchedRoom = None /\ ~r.needContinue
    THEN Return65(r)
    ELSE [r EXCEPT !.joinRoom = r.matchedRoom, !.pc = "L71"]

\* resolve_room.ts 72: splitContent.concat(' ') is the array with one more
\* element, the string ' '.
ConcatSpace(splitContent) == Append(splitContent, <<" ">>)


\* ---------------------------------------------------------------- actions
UserOf(s) == session[s].userId
Called(r, op, id) == [r EXCEPT !.calls = Append(@, <<op, id>>)]
Count(id, what) == [cleared EXCEPT ![id][what] = @ + 1]

\* A message enters the pipeline with a fresh context; the stages before
\* resolve_room have put its text into context.message.
StartRun(s) ==
    /\ run[s].pc \in {"idle", "done"}
    /\ runsLeft[s] > 0
    /\ runsLeft' = [runsLeft EXCEPT ![s] = @ - 1]
    /\ run' = [run EXCEPT ![s] =
                 [Idle EXCEPT !.pc = "L25", !.message = session[s].content]]
    /\ UNCHANGED <<otherVars, chainVars,
                 config, session, rooms, template, joined, active, uuids,
                   cleared, pendingSwitch>>

\* resolve_room.ts 25-60: queryJoinedRoom(hint) returns.
Resolve_L25(s) ==
    /\ run[s].pc = "L25"
    /\ \E q \in queryJoinedConversationRoom(UserOf(s), session[s].room_resolve) :
         LET r0 == [run[s] EXCEPT !.joinRoom = q]
             r1 == [r0 EXCEPT !.needContinue = NeedContinue(s),
                              !.splitContent = Split(r0.message)]
         IN  run' = [run EXCEPT ![s] =
                 IF config.allowChatWithRoomName
                 THEN IF Len(r1.splitContent) > 1
                      THEN [r1 EXCEPT !.token = Some(Head(r1.splitContent)),
                                      !.splitContent = Tail(r1.splitContent),
                                      !.pc = "L55"]
                      ELSE From62(r1)
                 ELSE From76(s, r0)]
    /\ UNCHANGED <<otherVars, chainVars,
                 config, session, rooms, template, joined, active, uuids,
                   cleared, pendingSwitch, runsLeft>>

\* resolve_room.ts 55-70: queryJoinedRoom(first word) returns.
Resolve_L55(s) ==
    /\ run[s].pc = "L55"
    /\ \E q \in queryJoinedConversationRoom(UserOf(s), run[s].token) :
         run' = [run EXCEPT ![s] = From62([run[s] EXCEPT !.matchedRoom = q])]
    /\ UNCHANGED <<otherVars, chainVars,
                 config, session, rooms, template, joined, active, uuids,
                   cleared, pendingSwitch, runsLeft>>

\* resolve_room.ts 70-76: messageTransformer.transform returns.
Resolve_L71(s) ==
    /\ run[s].pc = "L71"
    /\ run' = [run EXCEPT ![s] =
                 From76(s, [run[s] EXCEPT !.inputMessage =
                                Some(ConcatSpace(run[s].splitContent))])]
    /\ UNCHANGED <<otherVars, chainVars,
                 config, session, rooms, template, joined, active, uuids,
                   cleared, pendingSwitch, runsLeft>>

\* resolve_room.ts 78-111: getAllJoinedRooms returns.
Resolve_L78(s) ==
    /\ run[s].pc = "L78"
    /\ \E joinedRooms \in getAllJoinedConversationRoom(UserOf(s)) :
         IF Len(joinedRooms) > 0
         THEN \E random \in 1 .. Len(joinedRooms) :
                LET joinRoom == PickJoinedRoom(joinedRooms, UserOf(s), random)
                    r == [run[s] EXCEPT !.joinRoom = joinRoom]
                IN  run' = [run EXCEPT ![s] =
                        IF joinRoom = None THEN Throw111(r)
                        ELSE [r EXCEPT !.pc = "L111"]]
         ELSE run' = [run EXCEPT ![s] = From119(s, run[s])]
    /\ UNCHANGED <<otherVars, chainVars,
                 config, session, rooms, template, joined, active, uuids,
                   cleared, pendingSwitch, runsLeft>>

\* resolve_room.ts 111-124: switchActiveRoom is done.
Resolve_L111(s) ==
    /\ run[s].pc = "L111"
    /\ switchConversationRoom(UserOf(s), Get(run[s].joinRoom).roomId)
    /\ run' = [run EXCEPT ![s] =
                 From119(s, Called(run[s], "switchActiveRoom",
                                   Get(run[s].joinRoom).roomId))]
    /\ UNCHANGED <<otherVars, chainVars,
                 config, session, rooms, template, joined, uuids, cleared,
                   pendingSwitch, runsLeft>>

\* resolve_room.ts 125-133: queryPublicRoom returns.
Resolve_L125(s) ==
    /\ run[s].pc = "L125"
    /\ \E q \in queryPublicConversationRoom :
         run' = [run EXCEPT ![s] = From133(s, [run[s] EXCEPT !.joinRoom = q])]
    /\ UNCHANGED <<otherVars, chainVars,
                 config, session, rooms, template, joined, active, uuids,
                   cleared, pendingSwitch, runsLeft>>

\* resolve_room.ts 136-156: getTemplateRoom returns; uuidv4() is a value
\* never issued before.
Resolve_L136(s) ==
    /\ run[s].pc = "L136"
    /\ LET templateRoom == getTemplateConversationRoom
       IN  IF templateRoom = None
           THEN /\ run' = [run EXCEPT ![s] = Return143(run[s])]
                /\ UNCHANGED uuids
           ELSE /\ uuids' = uuids + 1
                /\ run' = [run EXCEPT ![s] =
                      [run[s] EXCEPT
                         !.cloneRoom = Some(CloneTemplate(Get(templateRoom),
                                                          UserOf(s), uuids + 1)),
                         !.pc = "L156"]]
    /\ UNCHANGED <<otherVars, chainVars,
                 config, session, rooms, template, joined, active, cleared,
                   pendingSwitch, runsLeft>>

\* resolve_room.ts 156-190: getMaxRoomId returns; the id is assigned before
\* the name is built.
Resolve_L156(s) ==
    /\ run[s].pc = "L156"
    /\ LET numbered == [run[s] EXCEPT
               !.cloneRoom = Some([Get(run[s].cloneRoom) EXCEPT
                   !.roomId = NextRoomId(getMaxConversationRoomId)])]
       IN  run' = [run EXCEPT ![s] =
             IF Throws161(s)
             THEN Throw161(numbered)
             ELSE [numbered EXCEPT
                     !.cloneRoom = Some([Get(numbered.cloneRoom) EXCEPT
                                           !.roomName = CloneName(s)]),
                     !.pc = "L190"]]
    /\ UNCHANGED <<otherVars, chainVars,
                 config, session, rooms, template, joined, active, uuids,
                   cleared, pendingSwitch, runsLeft>>

\* resolve_room.ts 190-210: createRoom is done.
Resolve_L190(s) ==
    /\ run[s].pc = "L190"
    /\ createConversationRoom(UserOf(s), Get(run[s].cloneRoom))
    /\ run' = [run EXCEPT ![s] =
          From195(Called([run[s] EXCEPT !.joinRoom = run[s].cloneRoom],
                         "createRoom", Get(run[s].cloneRoom).roomId))]
    /\ UNCHANGED <<otherVars, chainVars,
                 config, session, template, active, uuids, cleared,
                   pendingSwitch, runsLeft>>

\* resolve_room.ts 209-216: clearCache is done.
Resolve_L209(s) ==
    /\ run[s].pc = "L209"
    /\ cleared' = Count(Get(run[s].joinRoom).roomId, "cache")
    /\ run' = [run EXCEPT ![s] =
          From212(Called(run[s], "clearCache", Get(run[s].joinRoom).roomId))]
    /\ UNCHANGED <<otherVars, chainVars,
                 config, session, rooms, template, joined, active, uuids,
                   pendingSwitch, runsLeft>>

\* resolve_room.ts 217-219: the upsert is done.
Resolve_L217(s) ==
    /\ run[s].pc = "L217"
    /\ upsert(Get(run[s].joinRoom))
    /\ cleared' = Count(Get(run[s].joinRoom).roomId, "upsert")
    /\ run' = [run EXCEPT ![s] =
          [Called(run[s], "upsertRoom", Get(run[s].joinRoom).roomId)
             EXCEPT !.pc = "L219"]]
    /\ UNCHANGED <<otherVars, chainVars,
                 config, session, template, joined, active, uuids,
                   pendingSwitch, runsLeft>>

\* resolve_room.ts 219-228: clearChatHistory is done.
Resolve_L219(s) ==
    /\ run[s].pc = "L219"
    /\ cleared' = Count(Get(run[s].joinRoom).roomId, "history")
    /\ run' = [run EXCEPT ![s] =
          Return226(Called(run[s], "clearHistory",
                           Get(run[s].joinRoom).roomId))]
    /\ UNCHANGED <<otherVars, chainVars,
                 config, session, rooms, template, joined, active, uuids,
                   pendingSwitch, runsLeft>>

\* ------------------------------------------------------------- check_room
\* check_room.ts 26: rooms.every(...)
EveryMatches(joinedRooms, room) ==
    \A i \in 1 .. Len(joinedRooms) :
        \/ joinedRooms[i].roomName = room.roomName
        \/ joinedRooms[i].roomId = room.roomId

\* Return25 that lets the pipeline go on.
Return25_Continue(r) ==
    CheckReturn([r EXCEPT !.message = JoinRoomFirst], "CONTINUE")

\* check_room.ts 23-25
Return25(r) == CheckReturn([r EXCEPT !.message = JoinRoomFirst], "STOP")

\* check_room.ts 26-28
Return28(r) ==
    CheckReturn([r EXCEPT !.message = NotJoined(Get(r.room).roomName)], "STOP")

\* check_room.ts 33-35
Return35(r, room) == CheckReturn([r EXCEPT !.room = room], "CONTINUE")

\* check_room.ts 15-35: getAllJoinedRooms returns.  In the first branch the
\* switch is started and not awaited, the notice is sent and awaited.
Check_L17(s) ==
    /\ run[s].pc = "C17"
    /\ \E joinedRooms \in getAllJoinedConversationRoom(UserOf(s)) :
         LET room == run[s].room
         IN  IF room = None /\ Len(joinedRooms) > 0
             THEN \E random \in 1 .. Len(joinedRooms) :
                    /\ pendingSwitch' = [pendingSwitch EXCEPT
                                           ![s] = Some(joinedRooms[random].roomName)]
                    /\ run' = [run EXCEPT ![s] =
                          [run[s] EXCEPT
                             !.picked = Some(joinedRooms[random]),
                             !.sent = Append(@, joinedRooms[random].roomName),
                             !.pc = "C22"]]
             ELSE /\ UNCHANGED pendingSwitch
                  /\ run' = [run EXCEPT ![s] =
                       IF room = None /\ Len(joinedRooms) = 0
                       THEN Return25(run[s])
                       ELSE IF ~EveryMatches(joinedRooms, Get(room))
                       THEN Return28(run[s])
                       ELSE Return35(run[s], room)]
    /\ UNCHANGED <<otherVars, chainVars,
                 config, session, rooms, template, joined, active, uuids,
                   cleared, runsLeft>>

\* check_room.ts 22-35: context.send is done.
Check_L22(s) ==
    /\ run[s].pc = "C22"
    /\ run' = [run EXCEPT ![s] = Return35(run[s], run[s].picked)]
    /\ UNCHANGED <<otherVars, chainVars,
                 config, session, rooms, template, joined, active, uuids,
                   cleared, pendingSwitch, runsLeft>>

\* check_room.ts 21: the switch that was not awaited takes effect; it was
\* given the room's name, and the repository resolves the key among the
\* rooms the user has joined.
Switch_L21(s) ==
    /\ pendingSwitch[s] # None
    /\ pendingSwitch' = [pendingSwitch EXCEPT ![s] = None]
    /\ LET hit == { r \in JoinedRooms(UserOf(s)) :
                      r.roomName = Get(pendingSwitch[s]) }
       IN  IF hit = {} THEN UNCHANGED active
           ELSE \E r \in hit : switchConversationRoom(UserOf(s), r.roomId)
    /\ UNCHANGED <<otherVars, chainVars,
                 config, session, rooms, template, joined, uuids, cleared,
                   runsLeft, run>>

\* ---------------------------------------------------------- request_model
\* The stage check_room is scheduled before (check_room.ts 36); its handler
\* is not part of the sources: it runs, and the run is over.
Request_Model(s) ==
    /\ run[s].pc = "R"
    /\ run' = [run EXCEPT ![s] =
                 [run[s] EXCEPT !.request_model = "CONTINUE", !.pc = "done"]]
    /\ UNCHANGED <<otherVars, chainVars,
                 config, session, rooms, template, joined, active,
                   uuids, cleared, pendingSwitch, runsLeft>>

\* ------------------------------------------------------------ the registry
\* (chains/chain.ts is not part of the sources; section 4.1 of the
\* specification.)  A stage is registered with the stages it must run
\* before and the stages it must run after.
Stage(name, before, after) ==
    [name |-> name, before |-> before, after |-> after]

\* The stages of the sources, with the constraints they declare.
read_chat_message == Stage("read_chat_message", {}, {"lifecycle-prepare"})

resolve_room == Stage("resolve_room", {}, {"lifecycle-prepare"})

check_room == Stage("check_room", {"request_model"}, {})

\* The two stages they name.
lifecycle_prepare == Stage("lifecycle-prepare", {}, {})

request_model == Stage("request_model", {}, {})

Middlewares ==
    {lifecycle_prepare, read_chat_message, resolve_room, check_room,
     request_model}

Names(reg) == { reg[i].name : i \in 1 .. Len(reg) }

Placed(o) == { o[i] : i \in 1 .. Len(o) }

\* The graph of finalize: an edge a -> b exists whenever a declares
\* before: b or b declares after: a.
Edge(reg, a, b) ==
    \E i \in 1 .. Len(reg) :
        \/ reg[i].name = a /\ b \in reg[i].before
        \/ reg[i].name = b /\ a \in reg[i].after

\* The stages that can be placed next: not placed yet, every stage they
\* must follow is placed.
Ready(reg, o) ==
    { n \in Names(reg) \ Placed(o) :
        \A m \in Names(reg) : Edge(reg, m, n) => m \in Placed(o) }

\* Ties are broken by registration order.
FirstRegistered_Last(reg, S) ==
    reg[CHOOSE i \in 1 .. Len(reg) :
          /\ reg[i].name \in S
          /\ \A j \in 1 .. Len(reg) : reg[j].name \in S => j <= i].name

FirstRegistered(reg, S) ==
    reg[CHOOSE i \in 1 .. Len(reg) :
          /\ reg[i].name \in S
          /\ \A j \in 1 .. Len(reg) : reg[j].name \in S => i <= j].name

\* finalize(): one step of the stable topological sort.
Finalize_Place ==
    /\ sealed = "open"
    /\ Ready(registry, order) # {}
    /\ order' = Append(order, FirstRegistered(registry, Ready(registry, order)))
    /\ UNCHANGED <<otherVars, pipelineVars, registry, sealed, handlers, chain>>

\* finalize(): every stage is placed; the order is cached and the registry
\* sealed.
Finalize_Seal ==
    /\ sealed = "open"
    /\ Placed(order) = Names(registry)
    /\ sealed' = "sealed"
    /\ UNCHANGED <<otherVars, pipelineVars, registry, order, handlers, chain>>

\* What finalize does when stages are left and none can be placed.
OnNoneReady_PickAny ==
    /\ sealed' = "open"
    /\ order' = Append(order,
                       FirstRegistered(registry, Names(registry) \ Placed(order)))

OnNoneReady ==
    /\ sealed' = "CyclicOrderingError"
    /\ order' = <<>>

\* finalize(): stages are left and none of them can be placed.
Finalize_Fail ==
    /\ sealed = "open"
    /\ Placed(order) # Names(registry)
    /\ Ready(registry, order) = {}
    /\ OnNoneReady
    /\ UNCHANGED <<otherVars, pipelineVars, registry, handlers, chain>>

\* ------------------------------------------------------------ the executor
\* (section 4.2 of the specification.)
Signals == {"CONTINUE", "STOP", "SKIPPED"}

\* What a handler does: it may rewrite the context's message, and it
\* returns a control signal or a plain string.
Signal(g) == <<"signal", g>>
String(text) == <<"string", text>>
Handler(set, returns) == [set |-> set, returns |-> returns]

\* The handler that sets the message and returns STOP where h returns a
\* plain string.
Desugared(h) ==
    IF h.returns[1] = "string"
    THEN Handler(Some(h.returns[2]), Signal("STOP"))
    ELSE h

Variants == {"string", "stop"}

HandlerOf(v, name) ==
    IF v = "stop" THEN Desugared(handlers[name]) ELSE handlers[name]

\* A context at pipeline entry.
Entry ==
    [at |-> 1, executed |-> <<>>, message |-> <<"m">>, reply |-> <<>>,
     outcome |-> "none"]

\* A plain string returned by a handler: read_chat_message returns the text
\* it has read this way, and resolve_room, a later stage of the same run,
\* reads that text from context.message.  The string is the new message and
\* the run goes on.
OnString(ctx, text) == [ctx EXCEPT !.message = text, !.at = @ + 1]

\* What the executor does with the value a handler returned.
Execute(ctx, result) ==
    IF result[1] = "string" THEN OnString(ctx, result[2])
    ELSE IF result[2] = "STOP"
    THEN [ctx EXCEPT !.outcome = "STOP", !.reply = @ \o Reply(ctx.message)]
    ELSE [ctx EXCEPT !.at = @ + 1]

\* The two runs are independent of one another: they are taken one after
\* the other.
Turn(v) == v = "stop" => chain["string"].outcome # "none"

\* run(session): the handler of the next stage of the order is invoked.
RunStage(v) ==
    /\ sealed = "sealed"
    /\ Turn(v)
    /\ chain[v].outcome = "none"
    /\ chain[v].at <= Len(order)
    /\ LET name == order[chain[v].at]
           h == HandlerOf(v, name)
           c == [chain[v] EXCEPT
                   !.executed = Append(@, name),
                   !.message = IF h.set = None THEN @ ELSE Get(h.set)]
       IN  chain' = [chain EXCEPT ![v] = Execute(c, h.returns)]
    /\ UNCHANGED <<otherVars, pipelineVars, registry, sealed, order, handlers>>

\* run(session): the order is exhausted.
RunEnd(v) ==
    /\ sealed = "sealed"
    /\ Turn(v)
    /\ chain[v].outcome = "none"
    /\ chain[v].at > Len(order)
    /\ chain' = [chain EXCEPT ![v].outcome = "CONTINUE"]
    /\ UNCHANGED <<otherVars, pipelineVars, registry, sealed, order, handlers>>

\* ---------------------------------------------------------- initial states
TemplateRoom ==
    Room(0, <<"template">>, 0, "0", "template_clone",
         defaultPreset, defaultModel, defaultChatMode, TRUE)

PublicRoom ==
    Room(1, <<"p">>, 1, "u0", "public",
         defaultPreset, defaultModel, defaultChatMode, FALSE)

PrivateRoom ==
    Room(3, <<"a">>, 3, "u1", "private",
         defaultPreset, defaultModel, defaultChatMode, FALSE)

\* The private room with settings that differ from the live configuration
\* and the autoUpdate flag of a room cloned from the template.
PrivateDrifted ==
    Room(3, <<"a">>, 3, "u1", "private",
         "preset_old", "model_old", defaultChatMode, TRUE)

\* The stored settings of a template_clone room: in step with the live
\* configuration, or drifted from it.
Drifts ==
    { <<defaultPreset, defaultModel, defaultChatMode>>,
      <<"preset_old", defaultModel, defaultChatMode>>,
      <<defaultPreset, "model_old", defaultChatMode>>,
      <<"preset_old", "model_old", defaultChatMode>>,
      <<defaultPreset, "model_old", "chat_old">> }

CloneRoom(master, drift, auto) ==
    Room(2, <<"t">>, 2, master, "template_clone",
         drift[1], drift[2], drift[3], auto)

CloneRooms ==
    { CloneRoom(m, d, TRUE) : m \in {"u1", "u0"}, d \in Drifts }
    \cup { CloneRoom(m, <<"preset_old", "model_old", defaultChatMode>>, FALSE) :
             m \in {"u1", "u0"} }

Messages ==
    { <<"h">>, <<"a">>, <<"a", " ", "h">>, <<"z", " ", "h">>,
      <<"b", " ", "h">> }

Commands == { None, Some(<<"c">>) }

\* session.event.guild
Guild(name) == [name |-> name, id |-> <<"gid">>]

\* A session without a username; a group message comes from a guild that
\* has a name.
Session(userId, isDirect, appel, command, content, hint) ==
    [userId |-> userId, isDirect |-> isDirect, appel |-> appel,
     command |-> command, content |-> content, room_resolve |-> hint,
     username |-> None,
     guild |-> IF isDirect THEN None ELSE Some(Guild(Some(<<"guild">>)))]

\* The session with this username and this guild.
Named(sess, username, guild) ==
    [sess EXCEPT !.username = username, !.guild = guild]

Quiet(userId) == Session(userId, FALSE, FALSE, None, <<"h">>, None)

InitCommon ==
    /\ uuids = 3
    /\ cleared = [id \in RoomIds |-> [history |-> 0, cache |-> 0, upsert |-> 0]]
    /\ pendingSwitch = [s \in Sessions |-> None]
    /\ run = [s \in Sessions |-> Idle]

\* One session; every setting of the continuation triggers and every
\* message, over a few sets of rooms.
InitTriggers ==
    /\ InitCommon
    /\ config \in [allowChatWithRoomName : {TRUE}, allowPrivate : BOOLEAN,
                   privateChatWithoutCommand : BOOLEAN, allowAtReply : BOOLEAN,
                   isNickname : BOOLEAN, autoCreateRoomFromUser : BOOLEAN]
    /\ \E isDirect \in BOOLEAN, appel \in BOOLEAN, command \in Commands,
          content \in Messages :
         session = [s \in Sessions |->
                      IF s = "s1"
                      THEN Session("u1", isDirect, appel, command, content, None)
                      ELSE Quiet("u1")]
    /\ rooms = {PublicRoom, PrivateRoom,
                CloneRoom("u1", <<defaultPreset, defaultModel, defaultChatMode>>,
                          TRUE)}
    /\ template = Some(TemplateRoom)
    /\ \E j \in {{}, {3}, {1, 3}, {1, 2, 3}} :
         joined = [u \in Users |-> IF u = "u1" THEN j ELSE {}]
    /\ active = [u \in Users |-> None]
    /\ runsLeft = [s \in Sessions |-> IF s = "s1" THEN MaxRuns ELSE 0]

\* One session, chat by room name disabled (the triggers and the words of
\* the message are then never read); every set of rooms.
InitRooms ==
    /\ InitCommon
    /\ config \in [allowChatWithRoomName : {FALSE}, allowPrivate : {FALSE},
                   privateChatWithoutCommand : {FALSE}, allowAtReply : {FALSE},
                   isNickname : {FALSE}, autoCreateRoomFromUser : BOOLEAN]
    /\ \E isDirect \in BOOLEAN, command \in Commands,
          hint \in {None, Some(<<"t">>)} :
         session = [s \in Sessions |->
                      IF s = "s1"
                      THEN Session("u1", isDirect, FALSE, command, <<"h">>, hint)
                      ELSE Quiet("u1")]
    /\ \E public \in SUBSET {PublicRoom},
          private \in {{}, {PrivateRoom}, {PrivateDrifted}},
          clone \in {{}} \cup { {c} : c \in CloneRooms } :
         /\ rooms = public \cup private \cup clone
         /\ \E j \in SUBSET { r.roomId : r \in rooms } :
              /\ private # {} => 3 \in j
              /\ clone # {} => 2 \in j
              /\ joined = [u \in Users |-> IF u = "u1" THEN j ELSE {}]
              /\ \E a \in {None} \cup { Some(id) : id \in j } :
                   /\ a # None => j = {1, 2, 3}
                   /\ active = [u \in Users |-> IF u = "u1" THEN a ELSE None]
    /\ template \in {None, Some(TemplateRoom)}
    /\ runsLeft = [s \in Sessions |-> IF s = "s1" THEN MaxRuns ELSE 0]

\* One user without rooms, for whom a room is made from the template: with
\* and without a username, in a direct chat or in a guild that has a name or
\* has none.
InitNames ==
    /\ InitCommon
    /\ config \in [allowChatWithRoomName : {FALSE}, allowPrivate : {FALSE},
                   privateChatWithoutCommand : {FALSE}, allowAtReply : {FALSE},
                   isNickname : {FALSE}, autoCreateRoomFromUser : BOOLEAN]
    /\ \E isDirect \in BOOLEAN, username \in {None, Some(<<"alice">>)},
          name \in {None, Some(<<"g">>)} :
         session = [s \in Sessions |->
                      IF s = "s1"
                      THEN Named(Session("u1", isDirect, FALSE, None, <<"h">>,
                                         None),
                                 username,
                                 IF isDirect THEN None ELSE Some(Guild(name)))
                      ELSE Quiet("u1")]
    /\ rooms \in SUBSET {PublicRoom}
    /\ template = Some(TemplateRoom)
    /\ joined = [u \in Users |-> {}]
    /\ active = [u \in Users |-> None]
    /\ runsLeft = [s \in Sessions |-> IF s = "s1" THEN MaxRuns ELSE 0]

\* Two sessions whose runs interleave at their awaits: of two users, or of
\* one user who sends two messages.
InitConcurrent ==
    /\ InitCommon
    /\ config \in [allowChatWithRoomName : {FALSE}, allowPrivate : {FALSE},
                   privateChatWithoutCommand : {FALSE}, allowAtReply : {FALSE},
                   isNickname : {FALSE}, autoCreateRoomFromUser : BOOLEAN]
    /\ \E other \in Users, c1 \in Commands, c2 \in Commands :
         session = [s \in Sessions |->
                      IF s = "s1"
                      THEN Session("u1", FALSE, FALSE, c1, <<"h">>, None)
                      ELSE Session(other, FALSE, FALSE, c2, <<"h">>, None)]
    /\ rooms = {CloneRoom("u1", <<"preset_old", "model_old", defaultChatMode>>,
                          TRUE)}
    /\ template = Some(TemplateRoom)
    /\ joined \in [Users -> {{}, {2}}]
    /\ active = [u \in Users |-> None]
    /\ runsLeft = [s \in Sessions |-> 1]

\* -------------------------------------------------------- read_chat_message
\* An element of a message: its type and the attributes the handler reads.
Element(type, content, name) ==
    [type |-> type, content |-> content, name |-> name]

Text(content) == Element("text", Some(content), None)
At(name) == Element("at", None, name)

\* What iterating a primitive string yields: a one-character string, which
\* has no type and no attrs.
Character(c) == Element("undefined", None, None)

\* The elements a message is made of: text, a mention with a name, with an
\* empty name and without one, and an element of another type.
Elements ==
    { Text(<<"h">>), At(Some(<<"n">>)), At(Some(<<>>)), At(None),
      Element("image", None, None) }

RECURSIVE ElementLists(_)
ElementLists(k) ==
    IF k = 0 THEN {<<>>}
    ELSE LET shorter == ElementLists(k - 1)
         IN  shorter \cup { Append(l, e) : l \in shorter, e \in Elements }

\* A value of context.message: a primitive string, a String object or a list
\* of elements (null is None).
Primitive(text) == [kind |-> "string", value |-> text]
Boxed(text) == [kind |-> "String", value |-> text]
List(elements) == [kind |-> "elements", value |-> elements]

\* message instanceof String
InstanceOfString(message) == message.kind = "String"

\* for (const element of message)
Iterate(message) ==
    IF message.kind = "elements" THEN message.value
    ELSE [i \in 1 .. Len(message.value) |-> Character(message.value[i])]

\* What the loop body pushes for one element.
Pushed(element) ==
    IF element.type = "text" THEN <<Get(element.content)>>
    ELSE IF element.type = "at" /\ element.name # None
                                /\ Get(element.name) # <<>>
    THEN <<<<"@">> \o Get(element.name)>>
    ELSE <<>>

RECURSIVE Result(_)
Result(elements) ==
    IF elements = <<>> THEN <<>>
    ELSE Pushed(Head(elements)) \o Result(Tail(elements))

\* result.join("")
RECURSIVE Join(_)
Join(result) ==
    IF result = <<>> THEN <<>> ELSE Head(result) \o Join(Tail(result))

\* context.message ?? session.elements
Message(r) ==
    IF r.message # None THEN Get(r.message) ELSE List(r.elements)

\* What the handler returns.
ReadChatMessage(r) ==
    IF r.options_message # None \/ InstanceOfString(Message(r))
    THEN Signal("SKIPPED")
    ELSE String(Join(Result(Iterate(Message(r)))))

\* No read_chat_message call is under way.
ReaderIdle ==
    [pc |-> "idle", options_message |-> None, message |-> None,
     elements |-> <<>>, returned |-> None]

\* The handler: it reads the context and the session and assigns neither.
Read_Chat_Message ==
    /\ reader.pc = "called"
    /\ reader' = [reader EXCEPT
           !.pc = "returned",
           !.returned = Some(ReadChatMessage(reader))]
    /\ UNCHANGED <<requester, pipelineVars, chainVars>>

\* --------------------------------------------------------- completionStream
\* The number of failing chunks the stream passes over (errorCount > 5).
ErrorLimit == 5

\* The data of a server-sent event: the end marker, JSON with an error
\* field, text that is not JSON, JSON without a choice, and JSON whose first
\* choice has a delta.
Chunks == {"[DONE]", "error", "invalid", "no-choice", "delta"}

\* The text of a delta.
deltaContent == <<"d">>

\* No request is under way.
RequesterIdle ==
    [pc |-> "idle", findTools |-> FALSE, errorCount |-> 0, content |-> <<>>,
     yielded |-> <<>>, code |-> None, events |-> 0, firstError |-> 0]

\* The body of the inner try throws for this chunk.
Throws(chunk) == chunk \in {"error", "invalid"}

\* What is thrown: a ChatLunaError with its code, or another error.
ChatLunaError(code) == <<"ChatLunaError", code>>
OtherError == <<"Error">>

\* The errors a failing request or a breaking response stream raises.
Rejections ==
    {OtherError, ChatLunaError("API_REQUEST_FAILED"),
     ChatLunaError("NETWORK_ERROR")}

\* The outer catch: a ChatLunaError is passed on as it is, any other error
\* is wrapped into one of code API_REQUEST_FAILED.
OuterCatch(r, e) ==
    [r EXCEPT !.pc = "failed",
              !.code = IF e[1] = "ChatLunaError"
                       THEN Some(e[2]) ELSE Some("API_REQUEST_FAILED")]

\* The inner catch: once errorCount is over the limit it throws a
\* ChatLunaError, which the outer catch passes on.
Catch(r) ==
    IF r.errorCount > ErrorLimit
    THEN OuterCatch(r, ChatLunaError("API_REQUEST_FAILED"))
    ELSE [r EXCEPT !.errorCount = @ + 1]

\* The generation chunk made from a delta: its text is all the content so
\* far unless tools are given.
Yield(r) ==
    IF r.findTools
    THEN [r EXCEPT !.yielded = Append(@, deltaContent)]
    ELSE [r EXCEPT !.content = @ \o deltaContent,
                   !.yielded = Append(@, r.content \o deltaContent)]

\* One turn of the loop over the events.
OnChunk(r, chunk) ==
    IF chunk = "[DONE]" THEN [r EXCEPT !.pc = "returned"]
    ELSE IF Throws(chunk) THEN Catch(r)
    ELSE IF chunk = "no-choice" THEN r
    ELSE Yield(r)

\* The event as the iterator delivers it.
Received(r, chunk) ==
    [r EXCEPT !.events = @ + 1,
              !.firstError = IF chunk = "error" /\ @ = 0
                             THEN r.events + 1 ELSE @]

\* await this._post(...): the response arrives, or the request fails and the
\* outer catch throws a ChatLunaError.
CompletionStream_Post ==
    /\ requester.pc = "posting"
    /\ \/ requester' = [requester EXCEPT !.pc = "streaming"]
       \/ \E e \in Rejections : requester' = OuterCatch(requester, e)
    /\ UNCHANGED <<reader, pipelineVars, chainVars>>

\* for await (const event of iterator): the next event.
CompletionStream_Event ==
    /\ requester.pc = "streaming"
    /\ requester.events < MaxChunks
    /\ \E chunk \in Chunks :
           requester' = OnChunk(Received(requester, chunk), chunk)
    /\ UNCHANGED <<reader, pipelineVars, chainVars>>

\* The iterator rejects: the response stream breaks, the for await throws
\* and the outer catch fails the stream.
CompletionStream_Reject ==
    /\ requester.pc = "streaming"
    /\ \E e \in Rejections : requester' = OuterCatch(requester, e)
    /\ UNCHANGED <<reader, pipelineVars, chainVars>>

\* The iterator is exhausted: the generator returns.
CompletionStream_End ==
    /\ requester.pc = "streaming"
    /\ requester' = [requester EXCEPT !.pc = "returned"]
    /\ UNCHANGED <<reader, pipelineVars, chainVars>>

\* Neither read_chat_message alone nor a model request is under way.
OthersIdle == reader = ReaderIdle /\ requester = RequesterIdle

\* The pipeline of the sources, finalized: the order the runs follow.
ChainSealed ==
    /\ registry = <<lifecycle_prepare, read_chat_message, resolve_room,
                    check_room, request_model>>
    /\ sealed = "sealed"
    /\ order = <<"lifecycle-prepare", "read_chat_message", "resolve_room",
                 "check_room", "request_model">>
    /\ handlers = [n \in Names(registry) |-> Handler(None, Signal("CONTINUE"))]
    /\ chain = [v \in Variants |-> Entry]

Init ==
    /\ InitTriggers \/ InitRooms \/ InitNames \/ InitConcurrent
    /\ ChainSealed
    /\ OthersIdle

Next ==
    \E s \in Sessions :
        \/ StartRun(s)
        \/ Resolve_L25(s)
        \/ Resolve_L55(s)
        \/ Resolve_L71(s)
        \/ Resolve_L78(s)
        \/ Resolve_L111(s)
        \/ Resolve_L125(s)
        \/ Resolve_L136(s)
        \/ Resolve_L156(s)
        \/ Resolve_L190(s)
        \/ Resolve_L209(s)
        \/ Resolve_L217(s)
        \/ Resolve_L219(s)
        \/ Check_L17(s)
        \/ Check_L22(s)
        \/ Switch_L21(s)
        \/ Request_Model(s)

Spec == Init /\ [][Next]_vars

\* --------------------------------------- the registry and the executor alone
\* No message is being resolved.
PipelineIdle ==
    /\ InitCommon
    /\ config = [allowChatWithRoomName |-> FALSE, allowPrivate |-> FALSE,
                 privateChatWithoutCommand |-> FALSE, allowAtReply |-> FALSE,
                 isNickname |-> FALSE, autoCreateRoomFromUser |-> FALSE]
    /\ session = [s \in Sessions |-> Quiet("u1")]
    /\ rooms = {}
    /\ template = None
    /\ joined = [u \in Users |-> {}]
    /\ active = [u \in Users |-> None]
    /\ runsLeft = [s \in Sessions |-> 0]

ChainOpen ==
    /\ sealed = "open"
    /\ order = <<>>
    /\ chain = [v \in Variants |-> Entry]

AllNames == <<"A", "B", "C", "D", "E", "F">>
StageNames == { AllNames[i] : i \in 1 .. MaxStages }

\* A declaration <<a, "before", b>> or <<a, "after", b>> made by stage a.
Declarations ==
    { <<a, k, b>> : a \in StageNames, k \in {"before", "after"},
                    b \in StageNames }

Targets(D, a, k) == { d[3] : d \in { e \in D : e[1] = a /\ e[2] = k } }

Registered(D) ==
    [i \in 1 .. MaxStages |->
        Stage(AllNames[i], Targets(D, AllNames[i], "before"),
              Targets(D, AllNames[i], "after"))]

Continues == Handler(None, Signal("CONTINUE"))

Handlers ==
    { Handler(None, Signal(g)) : g \in Signals }
    \cup { Handler(Some(<<"e">>), Signal("STOP")) }
    \cup { Handler(None, String(x)) : x \in {<<"x">>, <<>>} }

\* The sets of at most k declarations.
RECURSIVE DeclarationSets(_)
DeclarationSets(k) ==
    IF k = 0 THEN {{}}
    ELSE LET smaller == DeclarationSets(k - 1)
         IN  smaller \cup { D \cup {d} : D \in smaller, d \in Declarations }

\* Stages A, B, ... registered in this order, with every set of at most
\* MaxConstraints declarations; every handler returns STOP, so that a run
\* is over after the first stage of the order.
InitScheduler ==
    /\ PipelineIdle
    /\ ChainOpen
    /\ \E D \in DeclarationSets(MaxConstraints) : registry = Registered(D)
    /\ handlers = [n \in StageNames |-> Handler(None, Signal("STOP"))]

\* Stages without constraints; every handler.
InitExecutor ==
    /\ PipelineIdle
    /\ ChainOpen
    /\ registry = Registered({})
    /\ handlers \in [StageNames -> Handlers]

\* The stages of the sources, registered in any order.
InitMiddlewares ==
    /\ PipelineIdle
    /\ ChainOpen
    /\ registry \in Orders(Middlewares)
    /\ handlers = [n \in Names(registry) |-> Continues]

InitChain == (InitScheduler \/ InitExecutor \/ InitMiddlewares) /\ OthersIdle

NextChain ==
    \/ Finalize_Place
    \/ Finalize_Seal
    \/ Finalize_Fail
    \/ \E v \in Variants : RunStage(v) \/ RunEnd(v)

SpecChain == InitChain /\ [][NextChain]_vars


\* ------------------------------------------------- read_chat_message alone
\* Every context message, every list of session elements, and
\* context.options.message set or not.
ContextMessages ==
    {None}
    \cup { Some(Primitive(t)) : t \in {<<>>, <<"h">>, <<"h", "i">>} }
    \cup { Some(Boxed(t)) : t \in {<<>>, <<"h">>} }
    \cup { Some(List(l)) : l \in ElementLists(MaxElements) }

InitRead ==
    /\ PipelineIdle
    /\ ChainSealed
    /\ requester = RequesterIdle
    /\ \E m \in ContextMessages, l \in ElementLists(MaxElements),
          o \in {None, Some(<<"o">>)} :
           reader = [ReaderIdle EXCEPT !.pc = "called", !.message = m,
                                       !.elements = l, !.options_message = o]

NextRead == Read_Chat_Message

SpecRead == InitRead /\ [][NextRead]_vars

\* -------------------------------------------------- completionStream alone
InitStream ==
    /\ PipelineIdle
    /\ ChainSealed
    /\ reader = ReaderIdle
    /\ \E t \in BOOLEAN :
           requester = [RequesterIdle EXCEPT !.pc = "posting", !.findTools = t]

NextStream ==
    \/ CompletionStream_Post
    \/ CompletionStream_Event
    \/ CompletionStream_Reject
    \/ CompletionStream_End

SpecStream == InitStream /\ [][NextStream]_vars


\* ------------------------------------------------------------------ claims
\* Only session s1 sends messages: its runs follow one another and nothing
\* else touches the repository.
Solo == runsLeft["s2"] = 0 /\ run["s2"].pc = "idle"

\* room matches one of the rooms the user has joined, by name or by id.
IsJoined(u, room) ==
    \E r \in JoinedRooms(u) :
        r.roomName = room.roomName \/ r.roomId = room.roomId

\* check_room was entered with context.options.room set (it leaves the room
\* as it is on every such path).
CheckedSetRoom(s) ==
    /\ run[s].check_room # "none"
    /\ run[s].picked = None
    /\ run[s].room # None

\* C1: whenever check_room returns CONTINUE, context.options.room is set and
\* is one of the rooms the user has joined (by name or id); a room that
\* matches no joined room gives STOP, for every size of the joined set,
\* zero included.
C1_ValidationGate ==
    \A s \in Sessions :
        run[s].check_room = "CONTINUE" =>
            /\ run[s].room # None
            /\ IsJoined(UserOf(s), Get(run[s].room))

\* C2: when context.options.room is set and matches at least one joined
\* room, check_room returns CONTINUE and leaves the room and the message
\* unchanged, whatever the other joined rooms are.
C2_JoinedRoomContinues ==
    \A s \in Sessions :
        (Solo /\ CheckedSetRoom(s) /\ IsJoined(UserOf(s), Get(run[s].room))) =>
            /\ run[s].check_room = "CONTINUE"
            /\ run[s].message = session[s].content


\* The user has joined a public room, a template_clone room they own and a
\* private room they own.
ThreeKinds(u) ==
    /\ \E r \in JoinedRooms(u) : r.visibility = "public"
    /\ \E r \in JoinedRooms(u) :
         r.visibility = "template_clone" /\ r.roomMasterId = u
    /\ \E r \in JoinedRooms(u) :
         r.visibility = "private" /\ r.roomMasterId = u

\* Neither the first word of the message nor the name hint named a joined
\* room.
NoNameMatch(s) ==
    /\ run[s].matchedRoom = None
    /\ \A r \in JoinedRooms(UserOf(s)) :
         session[s].room_resolve # Some(r.roomName)

\* C3: for a user joined to a public room, a template_clone room they own
\* and a private room they own, a resolve_room run that matches no room name
\* and is not halted at step 1 ends CONTINUE with the private owned room,
\* whatever the order of the rooms, the active room and
\* autoCreateRoomFromUser.
C3_PrivateOwnedFirst ==
    \A s \in Sessions :
        (/\ run[s].resolve_room \notin {"none", "STOP"}
         /\ NoNameMatch(s)
         /\ ThreeKinds(UserOf(s))) =>
            /\ run[s].resolve_room = "CONTINUE"
            /\ run[s].room # None
            /\ Get(run[s].room) \in JoinedRooms(UserOf(s))
            /\ Get(run[s].room).visibility = "private"
            /\ Get(run[s].room).roomMasterId = UserOf(s)

\* C4: resolve_room never ends by raising a fault (the claim's three kinds
\* of outcome are CONTINUE with a room, SKIPPED, and STOP with a message;
\* its example is a user with joined rooms of which none is selected).
C4_NeverFaults ==
    \A s \in Sessions : run[s].resolve_room # "FAULT"

\* ---- step 1
\* The first space-separated word of the message names a joined room.
FirstTokenMatches(s) ==
    \E r \in JoinedRooms(UserOf(s)) :
        r.roomName = Head(Split(session[s].content))

\* The continuation triggers, each with the switch that enables it.
Triggered(s) ==
    \/ session[s].command # None
    \/ session[s].isDirect /\ config.allowPrivate
                           /\ config.privateChatWithoutCommand
    \/ session[s].appel /\ config.allowAtReply
    \/ StartsWith(session[s].content, botName) /\ config.isNickname

\* The run is past step 1 of resolve_room (or was ended by it).
PastStep1(s) == run[s].pc \notin {"idle", "L25", "L55"}

NothingDone(s) ==
    /\ run[s].calls = <<>>
    /\ run[s].room = None
    /\ run[s].check_room = "none"

\* C5: with allowChatWithRoomName, no joined room matching the
\* first word and no continuation trigger, resolve_room returns SKIPPED
\* before any later step runs.
C5_ReturnsSkipped ==
    \A s \in Sessions :
        (/\ config.allowChatWithRoomName
         /\ PastStep1(s)
         /\ ~FirstTokenMatches(s)
         /\ ~Triggered(s)) =>
            run[s].resolve_room = "SKIPPED" /\ NothingDone(s)

\* ---- step 4
\* Ids of the rooms the run has created.
CreatedIds(s) ==
    { run[s].calls[i][2] :
        i \in { k \in 1 .. Len(run[s].calls) :
                  run[s].calls[k][1] = "createRoom" } }

MaxIdOf(S) ==
    IF S = {} THEN 0
    ELSE CHOOSE n \in { r.roomId : r \in S } : \A r \in S : r.roomId <= n

\* C6: for a user with no joined room, autoCreateRoomFromUser, a template
\* room and no command, a run that is not halted at step 1 ends CONTINUE
\* with a room created in the run: stored, private, owned by the user, its
\* roomId the maximum id of the other rooms plus 1, its conversationId
\* different from the template's; the template is unchanged.
C6_AutoCreate ==
    \A s \in Sessions :
        (/\ Solo
         /\ run[s].resolve_room \notin {"none", "STOP"}
         /\ config.autoCreateRoomFromUser
         /\ session[s].command = None
         /\ template # None
         /\ joined[UserOf(s)] \ CreatedIds(s) = {}) =>
            /\ run[s].resolve_room = "CONTINUE"
            /\ run[s].room # None
            /\ LET r == Get(run[s].room)
               IN  /\ r \in rooms
                   /\ r.roomId \in CreatedIds(s)
                   /\ r.visibility = "private"
                   /\ r.roomMasterId = UserOf(s)
                   /\ r.roomId = MaxIdOf(rooms \ {r}) + 1
                   /\ r.conversationId # Get(template).conversationId
            /\ template = Some(TemplateRoom)

\* C6 witness: such a run has ended with a new room whose id follows the id
\* of the public room that existed before.
C6_Witness ==
    \E s \in Sessions :
        /\ Solo
        /\ config.autoCreateRoomFromUser
        /\ session[s].command = None
        /\ run[s].resolve_room = "CONTINUE"
        /\ joined[UserOf(s)] = CreatedIds(s)
        /\ rooms \ {Get(run[s].room)} = {PublicRoom}
        /\ Get(run[s].room).roomId = 2
        /\ Get(run[s].room).visibility = "private"

\* C7: after any interleaving of runs of different users that each create a
\* room, no two room records of different owners share a roomId.
C7_RoomIdsUnique ==
    \A r1, r2 \in rooms :
        r1.roomMasterId # r2.roomMasterId => r1.roomId # r2.roomId

\* ---- step 5
Stored(id) == { r \in rooms : r.roomId = id }

\* The run has ended with a template_clone room that is kept in step with
\* the configuration.
AdoptedSynced(s) ==
    /\ run[s].resolve_room = "CONTINUE"
    /\ run[s].room # None
    /\ Get(run[s].room).visibility = "template_clone"
    /\ Get(run[s].room).autoUpdate = TRUE

\* C8: runs that follow one another persist a drifted template_clone
\* autoUpdate room once, with the live preset, model and chatMode, and clear
\* its history once: after a run has adopted the room its stored preset and
\* chatMode are the live ones, every write of the room was followed by one
\* clearing of its history, and no room is written or cleared twice.
C8_ResyncOnce ==
    Solo =>
        /\ \A id \in RoomIds :
             cleared[id].history <= 1 /\ cleared[id].upsert <= 1
        /\ \A s \in Sessions :
             AdoptedSynced(s) =>
                \A r \in Stored(Get(run[s].room).roomId) :
                    /\ r.preset = defaultPreset
                    /\ r.chatMode = defaultChatMode
                    /\ cleared[r.roomId].history = cleared[r.roomId].upsert
                    /\ (cleared[r.roomId].upsert = 1 =>
                          (r.model = defaultModel /\ r = Get(run[s].room)))

\* C8 witness: the second run has adopted the room that the first run had
\* to resync; it wrote nothing, and the history was cleared once.
C8_Witness ==
    \E s \in Sessions :
        /\ Solo
        /\ runsLeft[s] = MaxRuns - 2
        /\ AdoptedSynced(s)
        /\ Get(run[s].room).roomId = 2
        /\ cleared[2].history = 1
        /\ cleared[2].upsert = 1
        /\ \A i \in 1 .. Len(run[s].calls) :
             run[s].calls[i][1] = "switchActiveRoom"

\* C9: when the model of an adopted template_clone autoUpdate room has been
\* overwritten with config.defaultModel while the stored model still
\* differs from it, clearCache was called for the room earlier in the run,
\* also when the preset or the chatMode differ.
C9_CacheClearedFirst ==
    \A s \in Sessions :
        \A r \in rooms :
            (/\ run[s].joinRoom # None
             /\ Get(run[s].joinRoom).roomId = r.roomId
             /\ Get(run[s].joinRoom).visibility = "template_clone"
             /\ Get(run[s].joinRoom).autoUpdate = TRUE
             /\ r.model # defaultModel
             /\ Get(run[s].joinRoom).model = defaultModel) =>
                \E i \in 1 .. Len(run[s].calls) :
                    run[s].calls[i] = <<"clearCache", r.roomId>>

\* C10 as stated: with allowChatWithRoomName and no room-name match, the run
\* is halted at step 1 exactly when none of these holds: a command is set;
\* direct message and allowPrivate; the user mentioned the bot; the message
\* starts with botName.
C10_TriggersUngated ==
    \A s \in Sessions :
        (/\ config.allowChatWithRoomName
         /\ PastStep1(s)
         /\ run[s].matchedRoom = None) =>
            (run[s].resolve_room = "STOP" <=>
                ~(\/ session[s].command # None
                  \/ session[s].isDirect /\ config.allowPrivate
                  \/ session[s].appel
                  \/ StartsWith(session[s].content, botName)))

\* C10 amended: it is halted at step 1 exactly when none of these holds: a
\* command is set; direct message, allowPrivate and
\* privateChatWithoutCommand; the user mentioned the bot and allowAtReply;
\* the message starts with botName and isNickname.
C10_TriggersGated ==
    \A s \in Sessions :
        (/\ config.allowChatWithRoomName
         /\ PastStep1(s)
         /\ run[s].matchedRoom = None) =>
            (run[s].resolve_room = "STOP" <=> ~Triggered(s))

\* C10 witness: a group message without command or mention went past step 1
\* because it starts with botName and isNickname is set.
C10_Witness ==
    \E s \in Sessions :
        /\ config.allowChatWithRoomName
        /\ PastStep1(s)
        /\ run[s].matchedRoom = None
        /\ run[s].resolve_room # "STOP"
        /\ session[s].command = None
        /\ ~session[s].isDirect
        /\ ~session[s].appel
        /\ StartsWith(session[s].content, botName)
        /\ config.isNickname

\* ---- check_room with no room
\* C11: when check_room finds context.options.room unset and the joined set
\* empty, it sets the message to the join-a-room-first notice and returns
\* STOP; no switch of the active room is made or started, no notice is sent
\* and context.options.room stays unset.
C11_JoinRoomFirst ==
    [][\A s \in Sessions :
         (/\ run[s].pc = "C17"
          /\ run[s].room = None
          /\ JoinedRooms(UserOf(s)) = {}
          /\ run'[s] # run[s]) =>
             /\ run'[s].check_room = "STOP"
             /\ run'[s].message = JoinRoomFirst
             /\ run'[s].room = None
             /\ run'[s].sent = run[s].sent
             /\ active' = active
             /\ pendingSwitch' = pendingSwitch]_vars

\* C11 witness: check_room has stopped the run of a user without rooms with
\* the join-a-room-first notice.
C11_Witness ==
    \E s \in Sessions :
        /\ run[s].check_room = "STOP"
        /\ run[s].message = JoinRoomFirst
        /\ run[s].room = None
        /\ joined[UserOf(s)] = {}
        /\ active[UserOf(s)] = None

\* ---- an owned private room
\* The user has joined, before the run, a private room of which they are
\* room master.
OwnsPrivate(s) ==
    \E r \in JoinedRooms(UserOf(s)) :
        /\ r.visibility = "private"
        /\ r.roomMasterId = UserOf(s)
        /\ r.roomId \notin CreatedIds(s)

\* The message carries no room hint: no name hint, and no first word that
\* is looked up and names a joined room.
NoHint(s) ==
    /\ session[s].room_resolve = None
    /\ ~(/\ config.allowChatWithRoomName
         /\ Len(Split(session[s].content)) > 1
         /\ FirstTokenMatches(s))

\* The only repository writes of the run are switches of the active room.
OnlySwitches(s) ==
    \A i \in 1 .. Len(run[s].calls) : run[s].calls[i][1] = "switchActiveRoom"

SelectedOwnPrivate(s) ==
    /\ run[s].resolve_room = "CONTINUE"
    /\ run[s].room # None
    /\ Get(run[s].room) \in JoinedRooms(UserOf(s))
    /\ Get(run[s].room).visibility = "private"
    /\ Get(run[s].room).roomMasterId = UserOf(s)

\* C12: for a user who has joined a private room they own and a
\* message with no room hint, resolve_room selects that room and makes no
\* createRoom call.
C12_AlwaysSelects ==
    \A s \in Sessions :
        (Solo /\ OwnsPrivate(s) /\ NoHint(s) /\ run[s].resolve_room # "none") =>
            SelectedOwnPrivate(s) /\ OnlySwitches(s)

\* ---- STOP
\* C13: once a stage has returned STOP no later stage runs and the
\* context's message has been sent through the reply capability once: after
\* a STOP of resolve_room neither check_room nor request_model runs, after a
\* STOP of check_room request_model does not run.
C13_StopHalts ==
    \A s \in Sessions :
        /\ run[s].resolve_room = "STOP" =>
              /\ run[s].check_room = "none"
              /\ run[s].request_model = "none"
              /\ run[s].pc = "done"
              /\ run[s].reply = <<run[s].message>>
        /\ run[s].check_room = "STOP" =>
              /\ run[s].request_model = "none"
              /\ run[s].pc = "done"
              /\ run[s].reply = <<run[s].message>>
        /\ Len(run[s].reply) <= 1
        /\ run[s].reply # <<>> => "STOP" \in {run[s].resolve_room,
                                               run[s].check_room}

\* C13 witness: check_room has returned STOP for a room the user has not
\* joined; the notice was sent and request_model did not run.
C13_Witness ==
    \E s \in Sessions :
        /\ run[s].resolve_room = "CONTINUE"
        /\ run[s].check_room = "STOP"
        /\ run[s].room # None
        /\ run[s].reply = <<NotJoined(Get(run[s].room).roomName)>>
        /\ run[s].request_model = "none"
        /\ run[s].pc = "done"

\* ---- a plain string
Ended(v) == chain[v].outcome # "none"

\* C14: the run in which a stage returns a plain string and the run in
\* which it sets the message to the string and returns STOP execute the
\* same stages, send the same reply and end in the same outcome, for every
\* stage order and string; the stage that returned the string is the last
\* one executed, and the string is the reply.
C14_StringIsStop ==
    /\ (Ended("string") /\ Ended("stop")) =>
          /\ chain["string"].executed = chain["stop"].executed
          /\ chain["string"].reply = chain["stop"].reply
          /\ chain["string"].outcome = chain["stop"].outcome
          /\ chain["string"].message = chain["stop"].message
    /\ \A i \in 1 .. Len(chain["string"].executed) :
          LET h == handlers[chain["string"].executed[i]]
          IN  h.returns[1] = "string" =>
                 /\ i = Len(chain["string"].executed)
                 /\ chain["string"].outcome = "STOP"
                 /\ chain["string"].message = h.returns[2]
                 /\ chain["string"].reply = Reply(h.returns[2])

\* ---- finalize
Pos(o, n) == CHOOSE i \in 1 .. Len(o) : o[i] = n

RegIndex(reg, n) == CHOOSE i \in 1 .. Len(reg) : reg[i].name = n

\* o holds every registered stage once and satisfies every constraint.
Valid(reg, o) ==
    /\ Len(o) = Len(reg)
    /\ Placed(o) = Names(reg)
    /\ \A i, j \in 1 .. Len(o) : Edge(reg, o[i], o[j]) => i < j

\* A stage runs after a stage registered later only where a constraint
\* holds it back.
TieBroken(reg, o) ==
    \A i, j \in 1 .. Len(o) :
        (i < j /\ RegIndex(reg, o[j]) < RegIndex(reg, o[i])) =>
            \E k \in i .. (j - 1) : Edge(reg, o[k], o[j])

\* The stages reachable from the stages of S along the edges.
Succ(reg, S) == { b \in Names(reg) : \E a \in S : Edge(reg, a, b) }

RECURSIVE Reachable(_, _)
Reachable(reg, S) ==
    LET T == S \cup Succ(reg, S)
    IN  IF T = S THEN S ELSE Reachable(reg, T)

HasCycle(reg) ==
    \E n \in Names(reg) : n \in Reachable(reg, Succ(reg, {n}))

Precedes(o, a, b) == Pos(o, a) < Pos(o, b)

\* C15: the finalized order holds every registered stage exactly once and
\* satisfies every before/after constraint, for every acyclic set of
\* constraints (finalize does not fail on one); resolve_room and
\* read_chat_message follow lifecycle-prepare and check_room precedes
\* request_model; ties are broken by registration order, which makes the
\* order the only one the registration sequence and constraints allow.
C15_FinalizedOrder ==
    /\ ~HasCycle(registry) => sealed # "CyclicOrderingError"
    /\ sealed = "sealed" =>
          /\ Valid(registry, order)
          /\ TieBroken(registry, order)
          /\ \A o \in Orders(Names(registry)) :
                (Valid(registry, o) /\ TieBroken(registry, o)) => o = order
          /\ Names(registry) = { m.name : m \in Middlewares } =>
                /\ Precedes(order, "lifecycle-prepare", "resolve_room")
                /\ Precedes(order, "lifecycle-prepare", "read_chat_message")
                /\ Precedes(order, "check_room", "request_model")

\* C15 witness: resolve_room was registered first and lifecycle-prepare
\* last, request_model before check_room; the order is finalized.
C15_Witness ==
    /\ sealed = "sealed"
    /\ registry[1] = resolve_room
    /\ registry[2] = request_model
    /\ registry[3] = check_room
    /\ registry[5] = lifecycle_prepare
    /\ order = <<"check_room", "request_model", "lifecycle-prepare",
                 "resolve_room", "read_chat_message">>

\* C16: for every set of constraints that contains a cycle, finalize ends
\* with CyclicOrderingError and never produces an execution order: while it
\* runs it can always take a step, each step places a stage not placed
\* before (so there are fewer steps than stages), and the failure leaves no
\* order.
C16_CycleFails ==
    HasCycle(registry) =>
        /\ sealed # "sealed"
        /\ Len(order) < Len(registry)
        /\ Cardinality(Placed(order)) = Len(order)
        /\ sealed = "open" => ENABLED (Finalize_Place \/ Finalize_Fail)
        /\ sealed = "CyclicOrderingError" => order = <<>>
        /\ ~ENABLED (\E v \in Variants : RunStage(v) \/ RunEnd(v))

\* C16 witness: finalize has failed on A before B, B before A.
C16_Witness ==
    /\ sealed = "CyclicOrderingError"
    /\ Len(registry) = MaxStages
    /\ registry[1] = Stage("A", {"B"}, {})
    /\ registry[2] = Stage("B", {"A"}, {})
    /\ registry[3] = Stage("C", {}, {})

\* ---- the active room
\* C17: whenever resolve_room ends CONTINUE with a room it adopted in steps
\* 2 to 4 (picked among the joined rooms, the public room, or a room it
\* created), the user's active room pointer designates that room (so the
\* user has an active room).
C17_ActiveIsResolved ==
    \A s \in Sessions :
        (/\ Solo
         /\ run[s].resolve_room = "CONTINUE"
         /\ run[s].room # None
         /\ NoNameMatch(s)) =>
            active[UserOf(s)] = Some(Get(run[s].room).roomId)

\* C18: when check_room has found context.options.room unset and the joined
\* set non-empty, then by the time the next stage runs it has returned
\* CONTINUE with one of the joined rooms in context.options.room, the
\* active room pointer designates that room, and one notice naming the room
\* was sent.
C18_FallbackSwitched ==
    \A s \in Sessions :
        (run[s].picked # None /\ run[s].request_model # "none") =>
            /\ run[s].check_room = "CONTINUE"
            /\ run[s].room = run[s].picked
            /\ Get(run[s].picked) \in JoinedRooms(UserOf(s))
            /\ run[s].sent = <<Get(run[s].picked).roomName>>
            /\ active[UserOf(s)] = Some(Get(run[s].picked).roomId)

\* The rooms the user had joined before the run are all rooms the user does
\* not own, and there is at least one.
JoinedUnowned(s) ==
    LET before == { r \in JoinedRooms(UserOf(s)) : r.roomId \notin CreatedIds(s) }
    IN  /\ before # {}
        /\ \A r \in before :
              ~(/\ r.visibility \in {"private", "template_clone"}
                /\ r.roomMasterId = UserOf(s))

\* The run is past step 2 of resolve_room.
PastStep2(s) == PastStep1(s) /\ run[s].pc \notin {"L71", "L78"}

\* C19: with autoCreateRoomFromUser, step 2 assigns none of the rooms of a
\* user who has joined only rooms they do not own and does not switch the
\* active room; with a template room and no command the run ends CONTINUE
\* with a room it created, private and owned by the user.
C19_UnownedLeftUnresolved ==
    \A s \in Sessions :
        (/\ Solo
         /\ config.autoCreateRoomFromUser
         /\ JoinedUnowned(s)
         /\ NoNameMatch(s)
         /\ session[s].command = None
         /\ template # None
         /\ PastStep2(s)
         /\ run[s].resolve_room # "STOP") =>
            /\ \A i \in 1 .. Len(run[s].calls) :
                  run[s].calls[i][1] # "switchActiveRoom"
            /\ run[s].resolve_room # "none" =>
                  /\ run[s].resolve_room = "CONTINUE"
                  /\ run[s].room # None
                  /\ Get(run[s].room).roomId \in CreatedIds(s)
                  /\ Get(run[s].room).visibility = "private"
                  /\ Get(run[s].room).roomMasterId = UserOf(s)

\* ---- the frame of the resync
\* The room is kept in step with the configuration.
Synced(o) ==
    /\ o # None
    /\ Get(o).visibility = "template_clone"
    /\ Get(o).autoUpdate = TRUE

\* C20: a step of a resolve_room run leaves the stored record (preset,
\* model and chatMode included), the history and the cache of every room
\* as they are, and makes no upsert of it, unless the room is the one the
\* run has adopted and it is a template_clone room with autoUpdate true.
C20_ResyncFrame ==
    [][\A s \in Sessions :
         run'[s] # run[s] =>
            \A id \in RoomIds :
                (~Synced(run[s].joinRoom) \/ Get(run[s].joinRoom).roomId # id) =>
                    /\ cleared'[id] = cleared[id]
                    /\ Stored(id) \subseteq rooms']_vars

\* C20 witness: a run has adopted the private room whose settings differ
\* from the live ones and whose autoUpdate is true, next to a drifted
\* template_clone room; both are stored as before and nothing was cleared.
C20_Witness ==
    \E s \in Sessions :
        /\ run[s].resolve_room = "CONTINUE"
        /\ run[s].room = Some(PrivateDrifted)
        /\ PrivateDrifted \in rooms
        /\ \E d \in Drifts :
              /\ d[1] # defaultPreset
              /\ CloneRoom("u1", d, TRUE) \in rooms
        /\ \A id \in RoomIds :
              cleared[id] = [history |-> 0, cache |-> 0, upsert |-> 0]

\* ---- runs that interleave
\* C21: when runs of two sessions that share one template_clone autoUpdate
\* room interleave while its stored preset differs from the live one, the
\* room's history is cleared once, and never after the room was persisted
\* with the live settings and its history cleared for that.
C21_ClearedOncePerDrift ==
    \A id \in RoomIds : cleared[id].history <= 1

\* ---- read_chat_message
\* context.message is a string, primitive or object.
IsString(message) == message.kind \in {"string", "String"}

\* C22: read_chat_message returns SKIPPED, the signal on which the context's
\* message stays as it is, when context.options.message is set or the
\* message is a string of either form; otherwise it returns the texts of the
\* text elements and "@name" for the named mentions, in the order of the
\* elements, as one string.
C22_SkipsStrings ==
    reader.pc = "returned" =>
        IF reader.options_message # None \/ IsString(Message(reader))
        THEN reader.returned = Some(Signal("SKIPPED"))
        ELSE reader.returned =
                 Some(String(Join(Result(Message(reader).value))))

\* ---- the cache and the model
\* The stored record of the room differs from the configuration in its model
\* only.
ModelOnlyDrift(id) ==
    \E r \in Stored(id) :
        /\ r.model # defaultModel
        /\ r.preset = defaultPreset
        /\ r.chatMode = defaultChatMode

\* C23: runs that follow one another invoke clearCache once for a
\* template_clone autoUpdate room that differs from the configuration in its
\* model only: the run that adopts the room invokes it, and no later run
\* does.
C23_CacheClearedOnce ==
    Solo =>
        /\ \A id \in RoomIds : cleared[id].cache <= 1
        /\ \A s \in Sessions :
             (/\ AdoptedSynced(s)
              /\ ModelOnlyDrift(Get(run[s].room).roomId)) =>
                 \E i \in 1 .. Len(run[s].calls) :
                     run[s].calls[i] =
                         <<"clearCache", Get(run[s].room).roomId>>

\* ---- the input text
\* The words of the input text, without the separator.
Words(inputMessage) == SelectSeq(inputMessage, LAMBDA w : w # <<" ">>)

\* C24: with allowChatWithRoomName, when the run goes on past step 1 and the
\* first word of the message names no joined room, the input text has every
\* word of the message, in order.
C24_InputKeepsEveryWord ==
    \A s \in Sessions :
        (/\ config.allowChatWithRoomName
         /\ run[s].inputMessage # None
         /\ ~FirstTokenMatches(s)) =>
            Words(Get(run[s].inputMessage)) = Split(session[s].content)

\* ---- completionStream
\* C25: the event that delivers the first chunk with an error field makes
\* the stream fail with a ChatLunaError of code API_REQUEST_FAILED and
\* yields nothing, whatever the number of failing chunks before it; nothing
\* is yielded after that chunk or after "[DONE]", which ends the stream
\* normally.
C25_FirstErrorFails ==
    [][/\ (requester'.firstError # 0 /\ requester'.events # requester.events) =>
             /\ requester'.pc = "failed"
             /\ requester'.code = Some("API_REQUEST_FAILED")
             /\ requester'.yielded = requester.yielded
       /\ requester.pc = "returned" => requester' = requester]_vars

====
